---- MODULE Spec2Model ----
(***************************************************************************)
(* Model of harbor/tasks/deployment.py: the role synchronisation           *)
(* (BaseDeploymentTask.install_and_configure_role and its helpers), the    *)
(* forced update (UpdateFilesTask.run) and the deployment run              *)
(* (DeploymentTask.run) with its ssh-agent and working-directory scope.    *)
(*                                                                         *)
(* Text values (versions, variable values, file contents) are sequences    *)
(* of tokens, so that strip() and replace() are modelled by what they do.  *)
(* A Python call is an operator from a world record to a record            *)
(* [w, ret]: ret is "True", "False" or the name of the raised exception.   *)
(***************************************************************************)
EXTENDS Integers, Sequences, FiniteSets, TLC

\* ------------------------------------------------------------------ bounds
\* number of files of the source template tree (HARBOR_ROOT), in walk order
NumFiles == 3
\* process ids the operating system hands out to spawned agents
MaxPid == 1

\* ------------------------------------------------------------- state
VARIABLES
    dest,           \* files of the role directory, by path
    dirs,           \* directories that exist under the role directory
    marker,         \* the .synced marker file of the role directory
    cache,          \* the memoized _config attribute of the deployment task
    cwd,            \* the process working directory
    agents,         \* pids of the running ssh-agent processes
    log,            \* what the last task invocation did, in order
    command,        \* the command line the last deployment run handed to sh
    last,           \* the last task invocation: operation, inputs, result
    gotConfig,      \* what get_config last returned in that invocation
    gotVariables,   \* what _prepare_variables last returned in that invocation
    ymlFile,        \* deployment.yml
    yamlFile,       \* deployment.yaml
    environ,        \* os.environ
    gitRemote,      \* outcome of `git config --get remote.origin.url`
    harborVersion   \* the installed distribution's version

vars == <<dest, dirs, marker, cache, cwd, agents, log, command, last,
          gotConfig, gotVariables, ymlFile, yamlFile, environ, gitRemote, harborVersion>>

\* ------------------------------------------------------------- text values
Whitespace == {" ", "\n", "\t"}

RECURSIVE Replace(_, _)
\* str.replace(tok, ''): every occurrence of the token is removed
Replace(s, tok) ==
    IF s = <<>> THEN <<>>
    ELSE IF Head(s) = tok THEN Replace(Tail(s), tok)
    ELSE <<Head(s)>> \o Replace(Tail(s), tok)

RECURSIVE LStrip(_)
LStrip(s) ==
    IF s # <<>> /\ Head(s) \in Whitespace THEN LStrip(Tail(s)) ELSE s

RECURSIVE RStrip(_)
RStrip(s) ==
    IF s # <<>> /\ s[Len(s)] \in Whitespace
    THEN RStrip(SubSeq(s, 1, Len(s) - 1)) ELSE s

\* str.strip(): leading and trailing whitespace removed
Strip(s) == RStrip(LStrip(s))

\* an update that keeps the entries a already has
dict_update_KeepOld(a, b) ==
    [k \in (DOMAIN a) \cup (DOMAIN b) |-> IF k \in DOMAIN a THEN a[k] ELSE b[k]]

\* dict.update(): the entries of b override the entries of a
dict_update(a, b) ==
    [k \in (DOMAIN a) \cup (DOMAIN b) |-> IF k \in DOMAIN b THEN b[k] ELSE a[k]]

EmptyMap == [k \in {} |-> <<>>]

\* ------------------------------------------------------------- files
Absent == [exists |-> FALSE, data |-> <<>>]
File(d) == [exists |-> TRUE, data |-> d]

Files == 1 .. NumFiles
\* a path of the role directory that mirrors no node of the source tree
CustomPath == 0
Paths == Files \cup {CustomPath}

\* the source tree: two files per directory; of every three files the second
\* is a plain file and the others are .j2 templates
IsTemplate(i) == i % 3 # 2
DirOf(i) == (i + 1) \div 2
Dirs == {DirOf(i) : i \in Files}
RootDir == 1

\* the variable a template references: {{ domain }} or {{ git_url }}
TplVar(i) == IF i % 3 = 1 THEN "domain" ELSE "git_url"

\* bytes of a plain source file
PlainSrc(i) == <<"plain">>
\* content a user put into a destination file by hand
Custom == <<"custom">>

\* ------------------------------------------------------------- log
\* events: load n (candidate n read), git (remote queried), warn, pass n
\* (1 template-only, 2 full), copy i (_copy_file entered), io_error i (the
\* write of file i raised), undefined i (UndefinedError caught),
\* cannot_process i, error_msg n (1 templates, 2 structure, 3 unconfigured),
\* galaxy, marker, chdir n (1 role directory, 0 back), spawn pid (an agent
\* process started), unparsable (its output not parsed), sh, kill pid
Ev(e, n) == [ev |-> e, arg |-> n]
Log(w, e, n) == [w EXCEPT !.log = Append(@, Ev(e, n))]

IsExc(ret) == ret \notin {"True", "False"}

\* ------------------------------------------------------------- sequencing
\* The(S) is the element of a one-element set.  A statement `x = e; rest` is
\* written The({rest : x \in {e}}): e is evaluated once, x names its value.
The(S) == CHOOSE x \in S : TRUE

\* ------------------------------------------------------------- get_config
\* a loader that takes a missing file for an empty document
load_from_file_Lenient(f) ==
    IF f.state = "ok" THEN [ret |-> "True", val |-> f.val]
    ELSE IF f.state = "broken" THEN [ret |-> "YAMLFileValidationError", val |-> EmptyMap]
    ELSE [ret |-> "True", val |-> EmptyMap]

\* YamlFileLoader.load_from_file on one candidate file
load_from_file(f) ==
    IF f.state = "ok" THEN [ret |-> "True", val |-> f.val]
    ELSE IF f.state = "broken" THEN [ret |-> "YAMLFileValidationError", val |-> EmptyMap]
    ELSE [ret |-> "FileNotFoundError", val |-> EmptyMap]

\* self._config = <loaded>
SetConfig(w, val) ==
    [w |-> [w EXCEPT !.cache = [set |-> TRUE, val |-> val]], ret |-> "True", val |-> val]

\* the candidate files: 1 is deployment.yml, 2 is deployment.yaml
Candidate(n) == IF n = 1 THEN ymlFile ELSE yamlFile

\* a fallback taken on every error of the first candidate
LoadFrom_AnyError(w, first, other) ==
    The({
        IF r1.ret = "True" THEN SetConfig(w1, r1.val)
        ELSE The({
            IF r2.ret = "True" THEN SetConfig(w2, r2.val)
            ELSE [w |-> w2, ret |-> r2.ret, val |-> EmptyMap]
            : w2 \in {Log(w1, "load", other)}, r2 \in {load_from_file(Candidate(other))}})
        : w1 \in {Log(w, "load", first)}, r1 \in {load_from_file(Candidate(first))}})

\* the try on the first candidate and, on FileNotFoundError only, on the other
LoadFrom(w, first, other) ==
    The({
        IF r1.ret = "True" THEN SetConfig(w1, r1.val)
        ELSE IF r1.ret # "FileNotFoundError"
        THEN [w |-> w1, ret |-> r1.ret, val |-> EmptyMap]
        ELSE The({
            IF r2.ret = "True" THEN SetConfig(w2, r2.val)
            ELSE [w |-> w2, ret |-> r2.ret, val |-> EmptyMap]
            : w2 \in {Log(w1, "load", other)}, r2 \in {load_from_file(Candidate(other))}})
        : w1 \in {Log(w, "load", first)}, r1 \in {load_from_file(Candidate(first))}})

\* `return self._config`: the value the caller gets, none when the call raised
Returned(r) ==
    [r EXCEPT !.w.gotConfig = IF r.ret = "True" THEN [set |-> TRUE, val |-> r.val]
                              ELSE [set |-> FALSE, val |-> EmptyMap]]

\* a get_config that prefers deployment.yaml
get_config_YamlFirst(w) ==
    Returned(IF w.cache.set
             THEN [w |-> w, ret |-> "True", val |-> w.cache.val]
             ELSE LoadFrom(w, 2, 1))

\* a get_config that loads the files on every call
get_config_Reload(w) == Returned(LoadFrom(w, 1, 2))

get_config(w) ==
    Returned(IF w.cache.set
             THEN [w |-> w, ret |-> "True", val |-> w.cache.val]
             ELSE LoadFrom(w, 1, 2))

\* ------------------------------------------------------------- _prepare_variables
\* git config --get remote.origin.url, newlines removed and stripped
GitUrl == Strip(Replace(gitRemote.out, "\n"))

\* the two `if ... not in variables` blocks, the remote query having succeeded
Derived(v1) ==
    The({
        IF "git_secret_url" \notin DOMAIN v2
        THEN dict_update(v2, [k \in {"git_secret_url"} |-> Replace(v2["git_url"], "\n")])
        ELSE v2
        : v2 \in {IF "git_url" \notin DOMAIN v1
                  THEN dict_update(v1, [k \in {"git_url"} |-> GitUrl])
                  ELSE v1}})

\* `return variables`
ReturnVariables(w, v) ==
    [w |-> [w EXCEPT !.gotVariables = [set |-> TRUE, val |-> v]], ret |-> "True", val |-> v]

_prepare_variables(w) ==
    The({
        IF c.ret # "True" THEN c
        ELSE The({
            IF "git_url" \in DOMAIN v1
            THEN ReturnVariables(c.w, Derived(v1))
            ELSE IF ~gitRemote.ok
            THEN [w |-> Log(c.w, "git", 0), ret |-> "CalledProcessError", val |-> EmptyMap]
            ELSE ReturnVariables(Log(c.w, "git", 0), Derived(v1))
            : v1 \in {dict_update(environ, c.val)}})
        : c \in {get_config(w)}})

\* ------------------------------------------------------------- version marker
\* pkg_resources.get_distribution("harbor").version, 'dev' when not installed
get_harbor_version ==
    IF harborVersion = <<>> THEN <<"dev">> ELSE harborVersion

\* a check that warns about every marker it finds
_verify_synced_version_Always(w) ==
    IF ~w.marker.exists THEN w ELSE Log(w, "warn", 0)

\* warns when the marker exists and its stripped content is not the version
_verify_synced_version(w) ==
    IF ~w.marker.exists THEN w
    ELSE IF Strip(w.marker.data) # get_harbor_version THEN Log(w, "warn", 0)
    ELSE w

\* a marker written with a line end after the version
_write_synced_version_Newline(w) ==
    Log([w EXCEPT !.marker = File(get_harbor_version \o <<"\n">>)], "marker", 0)

_write_synced_version(w) ==
    Log([w EXCEPT !.marker = File(get_harbor_version)], "marker", 0)

\* a precondition that looks for the role directory instead of the marker
role_is_installed_and_configured_DirOnly(w) ==
    w.cwd = "project" /\ RootDir \in w.dirs

\* os.path.isfile(self.ansible_dir + '/.synced'), a path relative to cwd
role_is_installed_and_configured(w) ==
    w.cwd = "project" /\ w.marker.exists

\* ------------------------------------------------------------- _copy_file
\* os.mkdir, FileExistsError swallowed; the parent has to exist
_silent_mkdir(w, d) ==
    IF w.cwd # "project"
    THEN [w |-> w, ret |-> "FileNotFoundError"]
    ELSE [w |-> [w EXCEPT !.dirs = @ \cup {d}], ret |-> "True"]

\* Jinja2 rendering with StrictUndefined of the template of file i
Defined(i, variables) == TplVar(i) \in DOMAIN variables
Render(i, variables) == <<"tpl">> \o variables[TplVar(i)]

\* open(abs_dest_file_path, 'wb'): the file is created or truncated
OpenForWrite(w, i) == [w EXCEPT !.dest[i] = File(<<>>)]

\* the try block of the .j2 branch, the variables being prepared
WriteRendered(w, i, variables) ==
    The({
        IF ~Defined(i, variables)
        THEN [w |-> Log(w1, "undefined", i), ret |-> "False"]
        ELSE [w |-> [w1 EXCEPT !.dest[i] = File(Render(i, variables))], ret |-> "True"]
        : w1 \in {OpenForWrite(w, i)}})

_copy_file(w, i, inp) ==
    IF IsTemplate(i)
    THEN The({
            IF p.ret # "True" THEN [w |-> p.w, ret |-> p.ret]
            ELSE IF inp.ioFailAt = i
            THEN [w |-> Log(p.w, "io_error", i), ret |-> "OSError"]
            ELSE WriteRendered(p.w, i, p.val)
            : p \in {_prepare_variables(Log(w, "copy", i))}})
    ELSE IF inp.ioFailAt = i
    THEN [w |-> Log(Log(w, "copy", i), "io_error", i), ret |-> "CalledProcessError"]
    ELSE [w |-> [Log(w, "copy", i) EXCEPT !.dest[i] = File(PlainSrc(i))], ret |-> "True"]

\* ------------------------------------------------------------- the walk
\* a walk that never skips a file
Skipped_Never(only_jinja_templates, i) == FALSE

\* `if only_jinja_templates and not file.endswith('.j2'): continue`
Skipped(only_jinja_templates, i) == only_jinja_templates /\ ~IsTemplate(i)

\* the mkdir of the directory of file i, when file i is the first one in it
EnterDir(w, i) ==
    IF i = 1 \/ DirOf(i) # DirOf(i - 1)
    THEN _silent_mkdir(w, DirOf(i))
    ELSE [w |-> w, ret |-> "True"]

RECURSIVE WalkFrom(_, _, _, _)
\* the os.walk loop from file i on: mkdir of each directory, then its files
WalkFrom(w, i, only_jinja_templates, inp) ==
    IF i > NumFiles THEN [w |-> w, ret |-> "True"]
    ELSE The({
        IF m.ret # "True" THEN m
        ELSE IF Skipped(only_jinja_templates, i)
        THEN WalkFrom(m.w, i + 1, only_jinja_templates, inp)
        ELSE The({
            IF c.ret = "True" THEN WalkFrom(c.w, i + 1, only_jinja_templates, inp)
            ELSE IF c.ret = "False"
            THEN [w |-> Log(c.w, "cannot_process", i), ret |-> "False"]
            ELSE c
            : c \in {_copy_file(m.w, i, inp)}})
        : m \in {EnterDir(w, i)}})

\* a full pass that empties the destination before it walks the source
_synchronize_structure_from_template_Clean(w, only_jinja_templates, inp) ==
    The({WalkFrom(w1, 1, only_jinja_templates, inp)
         : w1 \in {Log(IF only_jinja_templates THEN w
                       ELSE [w EXCEPT !.dest = [p \in Paths |-> Absent]],
                       "pass", IF only_jinja_templates THEN 1 ELSE 2)}})

_synchronize_structure_from_template(w, only_jinja_templates, inp) ==
    The({WalkFrom(w1, 1, only_jinja_templates, inp)
         : w1 \in {Log(w, "pass", IF only_jinja_templates THEN 1 ELSE 2)}})

\* ------------------------------------------------------------- install_and_configure_role
\* an update that is also due when the marker holds another version
should_update_OnStale(force_update, w) ==
    \/ force_update
    \/ ~w.marker.exists
    \/ Strip(w.marker.data) # get_harbor_version

should_update(force_update, w) == force_update \/ ~w.marker.exists

\* ansible-galaxy install ... --force
GalaxyInstall(w, inp) ==
    [w |-> Log(w, "galaxy", 0),
     ret |-> IF inp.galaxyOk THEN "True" ELSE "CalledProcessError"]

\* the marker written before ansible-galaxy has run
InstallAndMark_MarkFirst(w, inp) ==
    GalaxyInstall(_write_synced_version(w), inp)

\* what follows the full pass in the `if should_update:` block
InstallAndMark(w, inp) ==
    The({
        IF g.ret # "True" THEN g
        ELSE [w |-> _write_synced_version(g.w), ret |-> "True"]
        : g \in {GalaxyInstall(w, inp)}})

\* the `if should_update:` block
UpdateRole(w, inp) ==
    The({
        IF s.ret = "False" THEN [w |-> Log(s.w, "error_msg", 2), ret |-> "False"]
        ELSE IF s.ret # "True" THEN s
        ELSE InstallAndMark(s.w, inp)
        : s \in {_synchronize_structure_from_template(w, FALSE, inp)}})

\* the function from the template-only pass on
SyncTemplatesThen(w, update, inp) ==
    The({
        IF t.ret = "False" THEN [w |-> Log(t.w, "error_msg", 1), ret |-> "False"]
        ELSE IF t.ret # "True" THEN t
        ELSE IF update THEN UpdateRole(t.w, inp)
        ELSE t
        : t \in {_synchronize_structure_from_template(w, TRUE, inp)}})

install_and_configure_role(w, force_update, inp) ==
    The({
        IF m.ret # "True" THEN m
        ELSE The({SyncTemplatesThen(w1, update, inp)
                  : w1 \in {_verify_synced_version(m.w)}})
        : update \in {should_update(force_update, w)}, m \in {_silent_mkdir(w, RootDir)}})

\* ------------------------------------------------------------- DeploymentTask.run
\* one element of the assembled command line
Tok(flag, num, arg) == [flag |-> flag, num |-> num, arg |-> arg]

\* files of the project directory ('../../' seen from the role directory)
ProjectFiles == {"secretA.txt"}

RECURSIVE VaultOpts_CountIds(_, _)
\* a loop that numbers the vault ids only
VaultOpts_CountIds(vault_passwords, num) ==
    IF vault_passwords = <<>> THEN <<>>
    ELSE IF Head(vault_passwords) \in ProjectFiles
    THEN <<Tok("--vault-password-file", 0, Head(vault_passwords))>>
         \o VaultOpts_CountIds(Tail(vault_passwords), num)
    ELSE <<Tok("--vault-id", num + 1, Head(vault_passwords))>>
         \o VaultOpts_CountIds(Tail(vault_passwords), num + 1)

RECURSIVE VaultOpts(_, _)
\* the loop over vault_passwords; num is the count of specifications seen
VaultOpts(vault_passwords, num) ==
    IF vault_passwords = <<>> THEN <<>>
    ELSE <<IF Head(vault_passwords) \in ProjectFiles
           THEN Tok("--vault-password-file", 0, Head(vault_passwords))
           ELSE Tok("--vault-id", num + 1, Head(vault_passwords))>>
         \o VaultOpts(Tail(vault_passwords), num + 1)

AgentDirectives(pid, git_private_key_path) ==
    <<Tok("export SSH_AUTH_SOCK", pid, ""), Tok("export SSH_AGENT_PID", pid, ""),
      Tok("ssh-add", 0, git_private_key_path), Tok("sleep", 5, "")>>

Opts(inp) ==
    (IF inp.debug THEN <<Tok("-vv", 0, "")>> ELSE <<>>)
    \o <<Tok("-e git_branch", 0, "master"), Tok("-e harbor_deployment_profile", 0, "")>>
    \o VaultOpts(inp.vault, 0)

\* the command line: the agent directives when a key is given, the playbook
\* invocation and the options
Command(pid, inp) ==
    (IF inp.key # "" THEN AgentDirectives(pid, inp.key) ELSE <<>>)
    \o <<Tok("ansible-playbook", 0, "harbor.playbook.yml"),
         Tok("-i", 0, "harbor.inventory.cfg")>>
    \o Opts(inp)

\* eval $(ssh-agent -s): the agent process inp.pid is started (0: none is),
\* then the output is decoded, split and its pid field converted
StartAgent(w, inp) ==
    IF inp.pid # 0
    THEN Log([w EXCEPT !.agents = @ \cup {inp.pid}], "spawn", inp.pid)
    ELSE w

\* the output parsed, or decode() or int() raising: UnicodeDecodeError is a
\* ValueError
spawn_ssh_agent(w, inp) ==
    IF inp.spawnOk
    THEN [w |-> StartAgent(w, inp), ret |-> "True", pid |-> inp.pid]
    ELSE [w |-> Log(StartAgent(w, inp), "unparsable", 0), ret |-> "ValueError", pid |-> 0]

kill_ssh_agent(w, pid) ==
    Log([w EXCEPT !.agents = @ \ {pid}], "kill", pid)

\* rkd's sh(): runs the command, raises CalledProcessError on a non-zero exit
sh(w, cmd, inp) ==
    [w |-> Log([w EXCEPT !.command = cmd], "sh", 0),
     ret |-> IF inp.sh = "zero" THEN "True"
             ELSE IF inp.sh = "nonzero" THEN "CalledProcessError"
             ELSE "KeyboardInterrupt"]

chdir(w, dir) == Log([w EXCEPT !.cwd = dir], "chdir", IF dir = "role" THEN 1 ELSE 0)

\* the body of the try block; pid 0 stands for None
TryBlock(w, inp) ==
    The({
        IF a.ret # "True" THEN a
        ELSE The({[w |-> r.w, ret |-> r.ret, pid |-> a.pid]
                  : r \in {sh(a.w, Command(a.pid, inp), inp)}})
        : a \in {IF inp.key # "" THEN spawn_ssh_agent(w, inp)
                 ELSE [w |-> w, ret |-> "True", pid |-> 0]}})

\* a finally block that kills without looking at the pid
FinallyBlock_AlwaysKill(w, pwd_backup, pid) ==
    kill_ssh_agent(chdir(w, pwd_backup), pid)

\* a finally block that restores the directory and forgets the agent
FinallyBlock_NoKill(w, pwd_backup, pid) == chdir(w, pwd_backup)

\* the finally block
FinallyBlock(w, pwd_backup, pid) ==
    The({IF pid # 0 THEN kill_ssh_agent(w1, pid) ELSE w1
         : w1 \in {chdir(w, pwd_backup)}})

\* a run that stays in the directory it was called in
RunCommand_NoChdir(w, inp) ==
    The({[w |-> FinallyBlock(t.w, w.cwd, t.pid), ret |-> t.ret]
         : t \in {TryBlock(w, inp)}})

\* from `pwd_backup = os.getcwd()` to the end of run
RunCommand(w, inp) ==
    The({[w |-> FinallyBlock(t.w, w.cwd, t.pid), ret |-> t.ret]
         : t \in {TryBlock(chdir(w, "role"), inp)}})

\* a run whose synchronisation is a forced one
RunConfigured_Forced(w, inp) ==
    The({IF IsExc(s.ret) THEN s ELSE RunCommand(s.w, inp)
         : s \in {install_and_configure_role(w, TRUE, inp)}})

\* what follows the marker precondition; the result of the synchronisation
\* is not looked at
RunConfigured(w, inp) ==
    The({IF IsExc(s.ret) THEN s ELSE RunCommand(s.w, inp)
         : s \in {install_and_configure_role(w, FALSE, inp)}})

DeploymentTask_run(w, inp) ==
    IF ~role_is_installed_and_configured(w)
    THEN [w |-> Log(w, "error_msg", 3), ret |-> "False"]
    ELSE RunConfigured(w, inp)

\* an update task that leaves force_update at its default
UpdateFilesTask_run_Default(w, inp) == install_and_configure_role(w, FALSE, inp)

UpdateFilesTask_run(w, inp) == install_and_configure_role(w, TRUE, inp)

\* ------------------------------------------------------------- environment
Versions == {<<"1.0">>, <<"1.1">>}

CfgDomain == [k \in {"domain"} |-> <<"c">>]
\* a git_url written as a YAML block scalar ends with a line end
CfgGit == [k \in {"git_url"} |-> <<"u", "\n">>]
NoFile == [state |-> "absent", val |-> EmptyMap]
Broken == [state |-> "broken", val |-> EmptyMap]
Yaml(c) == [state |-> "ok", val |-> c]

\* deployment.yml and deployment.yaml: none of them, the fallback alone,
\* both, a deployment.yml that does not parse beside the fallback
ConfigChoices ==
    {<<NoFile, NoFile>>, <<NoFile, Yaml(CfgDomain)>>,
     <<Yaml(CfgGit), Yaml(CfgDomain)>>, <<Broken, Yaml(CfgDomain)>>}
EnvChoices == {EmptyMap, [k \in {"domain", "git_secret_url"} |-> <<"e">>]}
GitChoices == {[ok |-> FALSE, out |-> <<>>], [ok |-> TRUE, out |-> <<"r", "\n">>]}

Unset == [set |-> FALSE, val |-> EmptyMap]

\* ------------------------------------------------------------- inputs
NoInput ==
    [ioFailAt |-> 0, galaxyOk |-> TRUE, key |-> "", spawnOk |-> TRUE, pid |-> 0,
     sh |-> "zero", debug |-> FALSE, vault |-> <<>>]

Templates == {i \in Files : IsTemplate(i)}

\* a synchronisation: the file whose write fails (0: none) or a failing
\* ansible-galaxy; without a full pass only templates are written and
\* ansible-galaxy does not run
SyncInputs(update) ==
    {[NoInput EXCEPT !.ioFailAt = f] : f \in IF update THEN Files ELSE Templates}
    \cup {[NoInput EXCEPT !.galaxyOk = g] : g \in IF update THEN BOOLEAN ELSE {TRUE}}

VaultLists == {<<>>, <<"secretA.txt", "42">>}

\* a deployment run on a configured role: a failing template write, the
\* command's exit, or --debug and --vault-passwords; on an unconfigured role
\* none of them is looked at
RunInputs(configured) ==
    IF configured
    THEN {[NoInput EXCEPT !.ioFailAt = f] : f \in Templates}
         \cup {[NoInput EXCEPT !.sh = s] : s \in {"zero", "nonzero", "error"}}
         \cup {[NoInput EXCEPT !.debug = (v # <<>>), !.vault = v] : v \in VaultLists}
    ELSE {NoInput}

\* --git-key and the agent's start: the process started (pid 0: none is) and
\* whether its output can be parsed
WithKey(inp, ok, pid) ==
    [inp EXCEPT !.key = "id_rsa", !.spawnOk = ok, !.pid = pid]

\* a started agent whose output parses, with every run input; no agent and an
\* empty pid field; a started agent whose output cannot be decoded
KeyInputs(configured, pid) ==
    {WithKey(inp, TRUE, pid) : inp \in RunInputs(configured)}
    \cup (IF configured
          THEN {WithKey(NoInput, FALSE, 0), WithKey(NoInput, FALSE, pid)}
          ELSE {})

\* the pid the operating system gives the next agent
FreePids == (1 .. MaxPid) \ agents
NextPid == CHOOSE p \in FreePids : \A q \in FreePids : p <= q

\* ------------------------------------------------------------- actions
\* the world a task invocation starts in; c is the task instance's _config
World(c) ==
    [dest |-> dest, dirs |-> dirs, marker |-> marker, cache |-> c,
     cwd |-> cwd, agents |-> agents, log |-> <<>>, command |-> <<>>,
     gotConfig |-> Unset, gotVariables |-> Unset]

\* the world a task invocation leaves behind; its instance's _config is kept
\* when the instance is the long-lived deployment task
Commit(keep, op, inp, r) ==
    /\ dest' = r.w.dest
    /\ dirs' = r.w.dirs
    /\ marker' = r.w.marker
    /\ cache' = IF keep THEN r.w.cache ELSE cache
    /\ cwd' = r.w.cwd
    /\ agents' = r.w.agents
    /\ log' = r.w.log
    /\ command' = r.w.command
    /\ last' = [op |-> op, inp |-> inp, ret |-> r.ret]
    /\ gotConfig' = r.w.gotConfig
    /\ gotVariables' = r.w.gotVariables
    /\ UNCHANGED <<ymlFile, yamlFile, environ, gitRemote, harborVersion>>

Init ==
    /\ dest = [i \in Paths |-> Absent]
    /\ dirs = {}
    /\ marker = Absent
    /\ cache = Unset
    /\ cwd = "project"
    /\ agents = {}
    /\ log = <<>>
    /\ command = <<>>
    /\ last = [op |-> "init", inp |-> NoInput, ret |-> "True"]
    /\ gotConfig = Unset
    /\ gotVariables = Unset
    /\ \E c \in ConfigChoices : ymlFile = c[1] /\ yamlFile = c[2]
    /\ environ \in EnvChoices
    /\ gitRemote \in GitChoices
    /\ environ = EmptyMap \/ gitRemote.ok
    /\ harborVersion = <<"1.0">>

\* harbor :deployment:files:update, on a task instance of its own
Update ==
    \E inp \in SyncInputs(TRUE) :
        \E r \in {UpdateFilesTask_run(World(Unset), inp)} :
            Commit(FALSE, "update", inp, r)

\* install_and_configure_role() called with its default force_update=False
Install ==
    \E inp \in SyncInputs(should_update(FALSE, World(cache))) :
        \E r \in {install_and_configure_role(World(cache), FALSE, inp)} :
            Commit(TRUE, "install", inp, r)

\* harbor :deployment:apply without --git-key
Apply ==
    \E inp \in RunInputs(role_is_installed_and_configured(World(cache))) :
        \E r \in {DeploymentTask_run(World(cache), inp)} :
            Commit(TRUE, "apply", inp, r)

\* harbor :deployment:apply --git-key=id_rsa
ApplyWithKey ==
    /\ FreePids # {}
    /\ \E inp \in KeyInputs(role_is_installed_and_configured(World(cache)), NextPid) :
        \E r \in {DeploymentTask_run(World(cache), inp)} :
            Commit(TRUE, "apply", inp, r)

Quiet == /\ log' = <<>>
         /\ command' = <<>>
         /\ last' = [op |-> "env", inp |-> NoInput, ret |-> "True"]
         /\ gotConfig' = Unset
         /\ gotVariables' = Unset

\* a newer version of the harbor distribution gets installed
Upgrade ==
    /\ harborVersion = <<"1.0">>
    /\ harborVersion' = <<"1.1">>
    /\ Quiet
    /\ UNCHANGED <<dest, dirs, marker, cache, cwd, agents,
                   ymlFile, yamlFile, environ, gitRemote>>

\* the operator edits, creates or removes the configuration files
EditConfig ==
    /\ \E c \in ConfigChoices \ {<<ymlFile, yamlFile>>} :
            ymlFile' = c[1] /\ yamlFile' = c[2]
    /\ Quiet
    /\ UNCHANGED <<dest, dirs, marker, cache, cwd, agents,
                   environ, gitRemote, harborVersion>>

\* the operator customises a plain file of the role directory, or puts a
\* file of their own into it
UserEdit ==
    /\ \E i \in Paths :
        /\ IF i = CustomPath THEN RootDir \in dirs ELSE ~IsTemplate(i) /\ dest[i].exists
        /\ dest[i].data # Custom
        /\ dest' = [dest EXCEPT ![i] = File(Custom)]
    /\ Quiet
    /\ UNCHANGED <<dirs, marker, cache, cwd, agents,
                   ymlFile, yamlFile, environ, gitRemote, harborVersion>>

\* the process ends and a new one creates fresh task instances
NewProcess ==
    /\ cache # Unset
    /\ cache' = Unset
    /\ cwd' = "project"
    /\ Quiet
    /\ UNCHANGED <<dest, dirs, marker, agents,
                   ymlFile, yamlFile, environ, gitRemote, harborVersion>>

Next ==
    \/ Update
    \/ Install
    \/ Apply
    \/ ApplyWithKey
    \/ Upgrade
    \/ EditConfig
    \/ UserEdit
    \/ NewProcess

Spec == Init /\ [][Next]_vars

\* ------------------------------------------------------------- reading the log
HasIn(l, e, n) == \E k \in DOMAIN l : l[k] = Ev(e, n)
HasEvIn(l, e) == \E k \in DOMAIN l : l[k].ev = e
Has(e, n) == HasIn(log, e, n)
HasEv(e) == HasEvIn(log, e)
\* the role directory holds the marker when the invocation starts
Configured == role_is_installed_and_configured(World(cache))
MarkerIsCurrent == marker.exists /\ Strip(marker.data) = get_harbor_version
MarkerIsStale == marker.exists /\ Strip(marker.data) # get_harbor_version

\* ------------------------------------------------------------- C1
\* C1: a deployment run with a private key that gets past the marker
\* precondition leaves, on every exit path (command exited zero, non-zero or
\* raised; the synchronisation raised; no agent came up), no agent it spawned
\* running and the working directory where it was before the call; over
\* repeated runs no agent process accumulates.  The exit on an agent output
\* that cannot be parsed is the subject of C17.
C1_AgentAndDirectoryReleased ==
    [][(last'.op = "apply" /\ last'.inp.key # "" /\ Configured
        /\ ~(HasEvIn(log', "unparsable") /\ HasEvIn(log', "spawn")))
        => /\ cwd' = cwd
           /\ \A k \in DOMAIN log' :
                log'[k].ev = "spawn" => log'[k].arg \notin agents'
           /\ agents' \subseteq agents]_vars

\* a run with a key whose command exited non-zero after the agent was spawned
C1_Witness ==
    /\ last.op = "apply" /\ last.inp.key # "" /\ last.inp.sh = "nonzero"
    /\ HasEv("spawn") /\ HasEv("sh") /\ HasEv("kill")
    /\ IsExc(last.ret)
    /\ cwd = "project" /\ agents = {}

\* ------------------------------------------------------------- C2
\* C2: the boolean a deployment run returns mirrors the command's exit
\* status: True on a zero exit, False (not an exception) on a non-zero exit.
C2_ReturnMirrorsExitStatus ==
    (last.op = "apply" /\ HasEv("sh") /\ last.inp.sh \in {"zero", "nonzero"})
        => last.ret = (IF last.inp.sh = "zero" THEN "True" ELSE "False")

C4_FailedSyncStopsRun ==
    (last.op = "apply" /\ Has("error_msg", 1))
        => (~HasEv("sh") /\ ~HasEv("spawn"))

\* ------------------------------------------------------------- C5
\* C5: a template whose rendering fails on an undefined variable makes its
\* copy report failure and leaves its destination as it was: neither
\* created nor modified.
C5_FailedRenderWritesNothing ==
    [][\A i \in Files :
        HasIn(log', "undefined", i)
            => (HasIn(log', "cannot_process", i) /\ dest'[i] = dest[i])]_vars

\* ------------------------------------------------------------- C6
\* C6: a deployment run on a role directory without the marker returns
\* False and has no effect: no synchronisation pass, no change of
\* directory, no agent, no command.
C6_UnconfiguredRunHasNoEffect ==
    [][(last'.op = "apply" /\ ~marker.exists)
        => /\ last'.ret = "False"
           /\ log' = <<Ev("error_msg", 3)>>
           /\ command' = <<>>
           /\ UNCHANGED <<dest, dirs, marker, cache, cwd, agents>>]_vars

\* a run with a key refused on a role directory that a failed update left
\* without the marker
C6_Witness ==
    /\ last.op = "apply" /\ last.inp.key # "" /\ last.ret = "False"
    /\ ~marker.exists /\ RootDir \in dirs
    /\ Has("error_msg", 3) /\ ~HasEv("pass") /\ ~HasEv("sh")

\* ------------------------------------------------------------- C7
\* C7: a non-forced synchronisation that finds the marker equal to the
\* current version runs the template-only pass and skips the full pass: no
\* plain file is written, the role installer is not invoked, the marker is
\* unchanged; run a second time in a row it changes nothing any more.
C7_CurrentMarkerTemplatesOnly ==
    [][(last'.op = "install" /\ MarkerIsCurrent)
        => /\ HasIn(log', "pass", 1)
           /\ ~HasIn(log', "pass", 2)
           /\ ~HasEvIn(log', "galaxy")
           /\ marker' = marker
           /\ \A i \in Files \ Templates :
                dest'[i] = dest[i] /\ ~HasIn(log', "copy", i)
           /\ (last.op = "install" /\ ~Has("pass", 2) /\ last'.inp = last.inp)
                => (dest' = dest /\ dirs' = dirs)]_vars

\* a template-only synchronisation that rendered a template and left a
\* customised plain file alone
C7_Witness ==
    /\ last.op = "install" /\ last.ret = "True" /\ MarkerIsCurrent
    /\ Has("pass", 1) /\ ~Has("pass", 2) /\ HasEv("copy")
    /\ \E i \in Files \ Templates : dest[i] = File(Custom)

\* ------------------------------------------------------------- C8
\* event a of l comes before event b of l
OrderedIn(l, a, b) ==
    \A j, k \in DOMAIN l : (l[j] = a /\ l[k] = b) => j < k

\* C8: a successful non-forced synchronisation of a destination without a
\* marker runs the template-only pass, then the full structural pass, and
\* leaves a marker that contains exactly the current version.
C8_NoMarkerFullSync ==
    [][(last'.op = "install" /\ ~marker.exists /\ last'.ret = "True")
        => /\ HasIn(log', "pass", 1) /\ HasIn(log', "pass", 2)
           /\ OrderedIn(log', Ev("pass", 1), Ev("pass", 2))
           /\ OrderedIn(log', Ev("pass", 2), Ev("marker", 0))
           /\ marker' = File(get_harbor_version)]_vars

\* the first synchronisation of a role directory, non-forced, succeeded
C8_Witness ==
    /\ last.op = "install" /\ last.ret = "True"
    /\ Has("pass", 1) /\ Has("pass", 2) /\ Has("marker", 0)
    /\ marker = File(harborVersion)

\* ------------------------------------------------------------- C9
Failures == {"undefined", "io_error", "cannot_process", "error_msg"}

\* both passes walked all their files, the role installer ran, nothing
\* failed, and the marker was written last
FullySyncedIn(l) ==
    /\ HasIn(l, "pass", 1) /\ HasIn(l, "pass", 2) /\ HasIn(l, "galaxy", 0)
    /\ \A k \in DOMAIN l : l[k].ev \notin Failures
    /\ OrderedIn(l, Ev("pass", 1), Ev("pass", 2))
    /\ OrderedIn(l, Ev("pass", 2), Ev("galaxy", 0))
    /\ OrderedIn(l, Ev("galaxy", 0), Ev("marker", 0))
    /\ \A i \in Templates :
        \E j, k \in DOMAIN l : j < k /\ l[j] = Ev("pass", 1) /\ l[k] = Ev("copy", i)
    /\ \A i \in Files :
        \E j, k \in DOMAIN l : j < k /\ l[j] = Ev("pass", 2) /\ l[k] = Ev("copy", i)
    /\ l[Len(l)] = Ev("marker", 0)

\* C9: in one synchronisation the stages come in the order template-only
\* pass, full structural pass, marker write, each only after the one before
\* succeeded: the marker is written only after both passes and the role
\* install of that invocation succeeded, and a failed or aborted
\* synchronisation leaves the marker as it was.
C9_MarkerWrittenLast ==
    [][(last'.op \in {"install", "update", "apply"})
        => /\ HasEvIn(log', "marker")
                => (FullySyncedIn(log') /\ last'.inp.galaxyOk)
           /\ HasIn(log', "pass", 2)
                => (HasIn(log', "pass", 1)
                    /\ ~HasIn(log', "error_msg", 1)
                    /\ OrderedIn(log', Ev("pass", 1), Ev("pass", 2)))
           /\ ~HasEvIn(log', "marker") => marker' = marker
           /\ (last'.op # "apply" /\ last'.ret # "True") => marker' = marker]_vars

\* a forced update at 1.1 whose role install failed after both passes: the
\* marker still reads 1.0
C9_Witness ==
    /\ last.op = "update" /\ IsExc(last.ret) /\ ~last.inp.galaxyOk
    /\ Has("pass", 2) /\ Has("galaxy", 0) /\ ~HasEv("marker")
    /\ marker = File(<<"1.0">>) /\ harborVersion = <<"1.1">>

\* ------------------------------------------------------------- C10
\* C10: a copy failure or a render failure during a synchronisation pass
\* aborts the rest of the walk and comes back as the result False instead of
\* an exception: no later source file is processed, and the files written
\* before it stay written.
C10_FailureReturnedAsFalse ==
    (last.op \in {"install", "update"})
        => \A i \in Files :
            (Has("io_error", i) \/ Has("undefined", i))
                => /\ last.ret = "False"
                   /\ \A j, k \in DOMAIN log :
                        (log[j].ev \in {"io_error", "undefined"} /\ log[k].ev = "copy")
                            => k < j
                   /\ \A k \in DOMAIN log :
                        (log[k].ev = "copy" /\ log[k].arg # i)
                            => dest[log[k].arg].exists

\* ------------------------------------------------------------- C11
\* the operation is a synchronisation: the update task, a direct call of
\* install_and_configure_role, or a deployment run past its precondition
Synchronises(op) ==
    op \in {"install", "update"} \/ (op = "apply" /\ Configured)

\* C11: when neither deployment.yml nor deployment.yaml exists, a
\* synchronisation aborts with the file-not-found error before any effect:
\* no directory, no file and no marker of the role directory is created or
\* modified.
C11_NoConfigNoSyncEffect ==
    [][(Synchronises(last'.op) /\ ymlFile = NoFile /\ yamlFile = NoFile)
        => /\ last'.ret = "FileNotFoundError"
           /\ UNCHANGED <<dest, dirs, marker>>]_vars

\* ------------------------------------------------------------- C12
\* C12: the synchronisation inside a deployment run is template-only for
\* every marker value: the run never starts the full structural pass, never
\* invokes the role installer and never writes the marker, no plain file is
\* copied, and the marker after the run is the marker before the run.
C12_RunSyncsTemplatesOnly ==
    [][(last'.op = "apply")
        => /\ Configured => HasIn(log', "pass", 1)
           /\ ~HasIn(log', "pass", 2)
           /\ ~HasEvIn(log', "galaxy")
           /\ ~HasEvIn(log', "marker")
           /\ \A i \in Files \ Templates : ~HasIn(log', "copy", i)
           /\ marker' = marker]_vars

\* a run at 1.1 on a role directory synchronised at 1.0: the warning, the
\* template-only pass, the command, and the marker still reads 1.0
C12_Witness ==
    /\ last.op = "apply" /\ last.ret = "True"
    /\ HasEv("warn") /\ Has("pass", 1) /\ HasEv("sh")
    /\ marker = File(<<"1.0">>) /\ harborVersion = <<"1.1">>

\* ------------------------------------------------------------- C13
\* the invocation calls get_config on a task instance without a memoized
\* configuration
LoadsConfig(op) == Synchronises(op) /\ (op = "update" \/ ~cache.set)

\* C13: a get_config that goes to the files tries deployment.yml first and
\* deployment.yaml second: it returns the contents of deployment.yml
\* whenever that file exists (deployment.yaml is not read), the contents of
\* deployment.yaml when only that file exists, and raises the not-found
\* error when neither exists.
C13_ConfigCandidatesInOrder ==
    [][LoadsConfig(last'.op)
        => /\ HasIn(log', "load", 1)
           /\ OrderedIn(log', Ev("load", 1), Ev("load", 2))
           /\ ymlFile.state = "ok"
                => /\ gotConfig' = [set |-> TRUE, val |-> ymlFile.val]
                   /\ ~HasIn(log', "load", 2)
           /\ (ymlFile = NoFile /\ yamlFile.state = "ok")
                => /\ gotConfig' = [set |-> TRUE, val |-> yamlFile.val]
                   /\ HasIn(log', "load", 2)
           /\ (ymlFile = NoFile /\ yamlFile = NoFile)
                => /\ ~gotConfig'.set
                   /\ HasIn(log', "load", 2)
                   /\ last'.ret = "FileNotFoundError"]_vars

\* deployment.yml was looked for and not found, deployment.yaml was loaded
C13_Witness ==
    /\ Has("load", 1) /\ Has("load", 2)
    /\ ymlFile = NoFile /\ yamlFile = Yaml(CfgDomain)
    /\ gotConfig = [set |-> TRUE, val |-> CfgDomain]
    /\ last.ret = "True"

\* ------------------------------------------------------------- C14
\* C14: once a get_config call on a task instance has succeeded, every later
\* call on that instance returns the memoized value and reads no file, even
\* when the configuration files were changed or removed in between; what a
\* successful call returns is what the instance keeps.
C14_ConfigMemoized ==
    [][(last'.op \in {"install", "apply"})
        => /\ (cache.set /\ Synchronises(last'.op))
                => /\ ~HasEvIn(log', "load")
                   /\ gotConfig' = cache
                   /\ cache' = cache
           /\ gotConfig'.set => cache' = gotConfig']_vars

\* a synchronisation that rendered with the memoized configuration after
\* both configuration files were removed
C14_Witness ==
    /\ last.op = "install" /\ last.ret = "True"
    /\ ymlFile = NoFile /\ yamlFile = NoFile
    /\ cache.set /\ gotConfig = cache
    /\ HasEv("copy") /\ ~HasEv("load")

\* ------------------------------------------------------------- C15
\* the keys of the two layers: the configuration get_config returned and
\* the process environment
LayerKeys == (DOMAIN gotConfig.val) \cup (DOMAIN environ)

\* the returned variables hold, for every key of a layer, the configuration's
\* value if the configuration has the key and the environment's otherwise;
\* git_url comes from the remote only when no layer has it, and the remote
\* is not queried otherwise
Layered ==
    /\ gotConfig.set =>
        (HasEv("git") <=> "git_url" \notin LayerKeys)
    /\ gotVariables.set =>
        /\ DOMAIN gotVariables.val = LayerKeys \cup {"git_url", "git_secret_url"}
        /\ \A k \in LayerKeys :
            gotVariables.val[k] =
                IF k \in DOMAIN gotConfig.val THEN gotConfig.val[k] ELSE environ[k]
        /\ "git_url" \notin LayerKeys
            => gotVariables.val["git_url"] = Strip(Replace(gitRemote.out, "\n"))

\* C15 (as stated): _prepare_variables resolves every name by layering, the
\* configuration over the environment; git_url is derived from the remote
\* only when absent from both layers; git_secret_url, when absent from both
\* layers, equals the resolved git_url.
C15_SecretUrlEqualsGitUrl ==
    /\ Layered
    /\ (gotVariables.set /\ "git_secret_url" \notin LayerKeys)
        => gotVariables.val["git_secret_url"] = gotVariables.val["git_url"]

\* C15 (amended): as above, but git_secret_url, when absent from both
\* layers, is the resolved git_url with its line ends removed.
C15_SecretUrlIsGitUrlWithoutNewlines ==
    /\ Layered
    /\ (gotVariables.set /\ "git_secret_url" \notin LayerKeys)
        => gotVariables.val["git_secret_url"]
            = Replace(gotVariables.val["git_url"], "\n")

\* variables resolved from a configuration whose git_url ends with a line
\* end: the remote was not queried and git_secret_url lacks the line end
C15_Witness ==
    /\ gotVariables.set /\ gotConfig = [set |-> TRUE, val |-> CfgGit]
    /\ environ = EmptyMap /\ ~HasEv("git")
    /\ gotVariables.val["git_url"] = <<"u", "\n">>
    /\ gotVariables.val["git_secret_url"] = <<"u">>

\* ------------------------------------------------------------- C16
IsVaultFlag(t) == t.flag \in {"--vault-password-file", "--vault-id"}
\* the vault flags of a command line, in their order
VaultFlags(cmd) == SelectSeq(cmd, IsVaultFlag)

\* C16: the command assembled for k vault password specifications carries
\* exactly k vault flags, in the order of the specifications: the n-th
\* specification, counted from 1 over all of them, gives a
\* vault-password-file flag when it names an existing file and the vault-id
\* flag n@specification otherwise.
C16_VaultFlagsInOrder ==
    (last.op = "apply" /\ HasEv("sh"))
        => /\ Len(VaultFlags(command)) = Len(last.inp.vault)
           /\ \A n \in 1 .. Len(last.inp.vault) :
                VaultFlags(command)[n] =
                    IF last.inp.vault[n] \in ProjectFiles
                    THEN Tok("--vault-password-file", 0, last.inp.vault[n])
                    ELSE Tok("--vault-id", n, last.inp.vault[n])

\* --vault-passwords="secretA.txt||42" with secretA.txt a file: the
\* password file, then the vault id 2@42
C16_Witness ==
    /\ last.op = "apply" /\ HasEv("sh")
    /\ last.inp.vault = <<"secretA.txt", "42">>
    /\ VaultFlags(command) = <<Tok("--vault-password-file", 0, "secretA.txt"),
                               Tok("--vault-id", 2, "42")>>

\* ------------------------------------------------------------- C17
\* C17: when the output of the agent cannot be parsed for its socket and
\* pid, the run aborts before the deployment command is executed, the
\* working directory is the one before the call, and no agent process that
\* this attempt started is left running.
C17_UnparsableAgentAbortsCleanly ==
    [][(last'.op = "apply" /\ HasEvIn(log', "unparsable"))
        => /\ IsExc(last'.ret)
           /\ ~HasEvIn(log', "sh")
           /\ cwd' = cwd
           /\ \A k \in DOMAIN log' :
                log'[k].ev = "spawn" => log'[k].arg \notin agents'
           /\ agents' \subseteq agents]_vars

C19_ForcedUpdateRunsBothPasses ==
    [][(last'.op = "update" /\ last'.ret = "True")
        => /\ HasIn(log', "pass", 1) /\ HasIn(log', "pass", 2)
           /\ OrderedIn(log', Ev("pass", 1), Ev("pass", 2))
           /\ \A i \in Files : HasIn(log', "copy", i)
           /\ HasIn(log', "marker", 0)
           /\ marker' = File(get_harbor_version)]_vars

\* a successful forced update at 1.1 of a role directory whose marker held
\* another version: the warning, both passes, the marker now reads 1.1
C19_Witness ==
    /\ last.op = "update" /\ last.ret = "True" /\ HasEv("warn")
    /\ Has("pass", 1) /\ Has("pass", 2)
    /\ harborVersion = <<"1.1">> /\ marker = File(<<"1.1">>)

\* ------------------------------------------------------------- C20
NotWarn(e) == e.ev # "warn"
\* the events of l other than the warning
WithoutWarn(l) == SelectSeq(l, NotWarn)

\* the invocation `op` with `inp` on the present state, the call of
\* _verify_synced_version left out
WithoutVerify(op, inp) ==
    The({
        IF m.ret # "True" THEN m
        ELSE The({
            IF op # "apply" \/ IsExc(s.ret) THEN s ELSE RunCommand(s.w, inp)
            : s \in {SyncTemplatesThen(m.w, should_update(op = "update", w), inp)}})
        : w \in {World(IF op = "update" THEN Unset ELSE cache)},
          m \in {_silent_mkdir(World(IF op = "update" THEN Unset ELSE cache), RootDir)}})

\* C20: the staleness warning is emitted exactly when a marker exists and
\* its value differs from the current version; it is emitted once, before
\* the first synchronisation pass of the invocation; and it changes nothing
\* of the outcome: the same passes run, the same files are written and the
\* same result is returned as without the warning.
C20_WarningOnlyInforms ==
    [][Synchronises(last'.op)
        => /\ HasEvIn(log', "warn") <=> MarkerIsStale
           /\ HasEvIn(log', "warn")
                => /\ log'[1] = Ev("warn", 0)
                   /\ Len(WithoutWarn(log')) = Len(log') - 1
                   /\ OrderedIn(log', Ev("warn", 0), Ev("pass", 1))
           /\ HasEvIn(log', "warn")
                => \E q \in {WithoutVerify(last'.op, last'.inp)} :
                    /\ last'.ret = q.ret
                    /\ WithoutWarn(log') = q.w.log
                    /\ dest' = q.w.dest /\ dirs' = q.w.dirs /\ marker' = q.w.marker
                    /\ command' = q.w.command /\ agents' = q.w.agents
                    /\ cwd' = q.w.cwd]_vars

\* a non-forced synchronisation at 1.1 of a role directory synchronised at
\* 1.0 warned first and then ran its pass
C20_Witness ==
    /\ last.op = "install" /\ last.ret = "True"
    /\ Len(log) > 1 /\ log[1] = Ev("warn", 0) /\ log[2] = Ev("pass", 1)
    /\ marker = File(<<"1.0">>) /\ harborVersion = <<"1.1">>

\* ------------------------------------------------------------- C21
\* C21: when deployment.yml exists but cannot be parsed, get_config raises
\* the parse error and does not fall back to deployment.yaml, which is not
\* read, and the failed call memoizes nothing.
C21_ParseErrorIsFinal ==
    [][(LoadsConfig(last'.op) /\ ymlFile = Broken)
        => /\ last'.ret = "YAMLFileValidationError"
           /\ HasIn(log', "load", 1)
           /\ ~HasIn(log', "load", 2)
           /\ ~gotConfig'.set
           /\ cache' = cache]_vars

\* a synchronisation stopped by a deployment.yml that does not parse, beside
\* a deployment.yaml that would have: nothing is memoized
C21_Witness ==
    /\ last.op = "install" /\ last.ret = "YAMLFileValidationError"
    /\ ymlFile = Broken /\ yamlFile = Yaml(CfgDomain)
    /\ Has("load", 1) /\ ~Has("load", 2)
    /\ ~cache.set /\ ~gotConfig.set

\* ------------------------------------------------------------- C22
\* the flags of the directives that hand the agent and the key to the command
DirectiveFlags == {"export SSH_AUTH_SOCK", "export SSH_AGENT_PID", "ssh-add", "sleep"}

\* C22: a deployment run without a private key starts no agent, puts no
\* environment-export and no key-registration directive into the command,
\* and kills nothing in its cleanup; the working directory is restored all
\* the same.
C22_NoKeyNoAgent ==
    [][(last'.op = "apply" /\ last'.inp.key = "")
        => /\ ~HasEvIn(log', "spawn") /\ ~HasEvIn(log', "unparsable")
           /\ ~HasEvIn(log', "kill")
           /\ agents' = agents
           /\ \A k \in DOMAIN command' : command'[k].flag \notin DirectiveFlags
           /\ cwd' = cwd
           /\ HasIn(log', "chdir", 1) => log'[Len(log')] = Ev("chdir", 0)]_vars

\* a run without a key whose command exited non-zero: the directory was
\* entered and left, the command starts with the playbook, nothing was killed
C22_Witness ==
    /\ last.op = "apply" /\ last.inp.key = "" /\ last.inp.sh = "nonzero"
    /\ HasEv("sh") /\ ~HasEv("spawn") /\ ~HasEv("kill")
    /\ command[1].flag = "ansible-playbook"
    /\ log[Len(log)] = Ev("chdir", 0) /\ cwd = "project"

\* ------------------------------------------------------------- C23
\* the positions of the events e in l
Positions(l, e) == {k \in DOMAIN l : l[k].ev = e}

\* C23: in every deployment run that executes the command, the command
\* starts only after the working directory was changed to the role
\* directory and, with a private key, after the agent was spawned; the
\* directory is restored and the agent is killed only after the command has
\* finished; the agent is killed at most once, and it is the spawned one.
C23_CommandInsideScope ==
    (last.op = "apply" /\ HasEv("sh"))
        => \E s \in Positions(log, "sh") :
            /\ Positions(log, "sh") = {s}
            /\ \E c \in 1 .. (s - 1) :
                /\ log[c] = Ev("chdir", 1)
                /\ \A k \in Positions(log, "chdir") : k = c \/ k > s
            /\ \E c \in (s + 1) .. Len(log) : log[c] = Ev("chdir", 0)
            /\ last.inp.key # ""
                => /\ \E a \in 1 .. (s - 1) : log[a] = Ev("spawn", last.inp.pid)
                   /\ \E k \in (s + 1) .. Len(log) : log[k] = Ev("kill", last.inp.pid)
            /\ \A k \in Positions(log, "kill") : k > s
            /\ Cardinality(Positions(log, "kill")) <= 1
            /\ Cardinality(Positions(log, "spawn")) <= 1

\* a run with a key whose command raised: directory entered, agent spawned,
\* command, directory restored, agent killed
C23_Witness ==
    /\ last.op = "apply" /\ last.inp.key # "" /\ last.inp.sh = "error"
    /\ Len(log) >= 5
    /\ SubSeq(log, Len(log) - 4, Len(log))
        = <<Ev("chdir", 1), Ev("spawn", last.inp.pid), Ev("sh", 0),
            Ev("chdir", 0), Ev("kill", last.inp.pid)>>

====
